---------------------------- MODULE Spec2Model ----------------------------
(***************************************************************************)
(* A model of src/src/lib.rs: the NASADEM tile (struct NASADEM), its two   *)
(* loaders (add_elevation, add_water), the coordinate mapper (idx_to_pont) *)
(* and the cell iterator (struct Iter, Iterator::next).                    *)
(*                                                                         *)
(* Scaling.  The source fixes the grid at 3601 x 3601 samples.  The model  *)
(* keeps every formula of the source but writes Dim for 3601, so that a    *)
(* whole tile and a whole traversal fit in a state.                        *)
(*                                                                         *)
(* Coordinates.  A Point<f64> whose value is  c + n / 3601.0  is kept as   *)
(* the exact numerator  c * Dim + n  (units of 1/Dim degree).  The f64     *)
(* rounding of that sum is not computed; the one place of the source where *)
(* rounding decides an outcome (the top/right edge debug assertion of      *)
(* add_elevation) is modelled by EdgeRoundsOver.                           *)
(*                                                                         *)
(* Option<T> is a sequence: None is << >>, Some(v) is << v >>.             *)
(***************************************************************************)
EXTENDS Integers, Sequences, FiniteSets

\* The side of the sample grid (3601 in the source, scaled).
Dim == 3

\* The number of samples of a grid: 3601 * 3601 in the source.
NSamples == Dim * Dim

\* The two build profiles: "debug" compiles debug_assert! and arithmetic
\* overflow checks in, "release" compiles both out.
Builds == {"debug", "release"}

\* usize arithmetic without overflow checks wraps modulo 2^64; the model
\* keeps the wrap-around at a width its integers can hold.
UsizeMod == 2 ^ 16

\* Tile anchors (Point<i32>, whole degrees) the model constructs tiles with.
Anchors ==
    { [x |-> -106, y |-> 38], [x |-> -65, y |-> 38], [x |-> 24, y |-> -1] }

\* The cursor slots: at most two live cursors on the tile at a time.
Cursors == {1, 2}

None == << >>
Some(v) == << v >>

VARIABLES
    build,      \* the build profile the program was compiled with
    dem,        \* the NASADEM value: southwest_corner, elevation, water
    cursors,    \* cursors[c]: None, or Some of a live Iter (with what it yielded)
    yielded,    \* history: yielded[c], the cells cursor c has returned so far
    last,       \* the most recent call and what it returned
    okSrc       \* history: the stream of the last successful load of each grid

vars == << build, dem, cursors, yielded, last, okSrc >>

-----------------------------------------------------------------------------
(* Byte streams handed to the loaders. *)

ElevPatterns == {"zero", "ramp"}

ElevByte(p, k) == IF p = "zero" THEN 0 ELSE k % 256

\* Stream lengths in bytes, from empty to exactly one tile (2 bytes a
\* sample): ending inside a sample, at the end of a row, one byte short.
ElevLens ==
    {0, 1, 2, 2 * Dim - 1, 2 * Dim, 2 * NSamples - 2, 2 * NSamples - 1,
     2 * NSamples}

ElevStreams ==
    { [k \in 1..len |-> ElevByte(p, k)] : len \in ElevLens, p \in ElevPatterns }

WaterPatterns == {"land", "water", "dirty"}

WaterByte(p, k) ==
    CASE p = "land" -> 0
      [] p = "water" -> 255
      [] OTHER -> IF k % 3 = 0 THEN 128 ELSE IF k % 3 = 1 THEN 0 ELSE 255

\* Stream lengths in bytes, from empty to exactly one tile (1 byte a sample).
WaterLens == {0, 2, 3, Dim, NSamples - 1, NSamples}

WaterStreams ==
    { [k \in 1..len |-> WaterByte(p, k)] : len \in WaterLens, p \in WaterPatterns }

-----------------------------------------------------------------------------
(* NASADEM::new *)

NASADEM_new(southwest_corner) ==
    [southwest_corner |-> southwest_corner, elevation |-> None, water |-> None]

-----------------------------------------------------------------------------
(* f64 coordinates, as exact numerators over Dim. *)

\* c as f64 + n as f64 / 3601.0
Deg(c, n) == c * Dim + n

\* Point::new(lon, lat)
Point(lon, lat) == [x |-> lon, y |-> lat]

\* The anchors c for which IEEE-754 double arithmetic evaluates
\*   (c + 3600.0 / 3601.0) + 1.0 / 3601.0
\* to a value above c + 1 (for every other whole c in -181..180 the sum
\* rounds to exactly c + 1 or below it).
EdgeRoundsOver(c) == c \in {-65, -5, -1}

\* lat_t <= (c + 1) as f64, where lat_t = Deg(c, n) + 1.0 / 3601.0: off the
\* edge the two sides differ by at least 1/3601 and the exact comparison
\* decides; on the edge (n + 1 = Dim) they are equal in exact arithmetic and
\* the rounding of the left side decides.
F64LeUpper(c, n) == IF n + 1 = Dim THEN ~EdgeRoundsOver(c) ELSE n + 1 < Dim

\* The four debug assertions on a row's (column's) bounds, with n the row
\* (column) number: upper <= c+1, lower < c+1, lower >= c, upper > c.
BoundsAsserts(c, n) ==
    /\ F64LeUpper(c, n)
    /\ Deg(c, n) < Deg(c + 1, 0)
    /\ Deg(c, n) >= Deg(c, 0)
    /\ Deg(c, n) + 1 > Deg(c, 0)

\* debug_assert! is compiled in, and usize overflow is checked.
DebugAssertions == build = "debug"

\* a - b on usize where overflow is not checked.
WrappingSub(a, b) == (a - b) % UsizeMod

\* What a call returned: status "ok" with a value, or how it failed.
Ret(status, val) == [status |-> status, val |-> val]

-----------------------------------------------------------------------------
(* idx_to_pont *)

\* y = idx / 3601 without the north-first flip.
idx_to_pont_noflip(sw_corner, idx) ==
    IF DebugAssertions /\ ~(idx < NSamples)
    THEN Ret("panic", None)
    ELSE Ret("ok", Some(Point(Deg(sw_corner.x, idx % Dim),
                              Deg(sw_corner.y, idx \div Dim))))

\* The row taken from idx % 3601 as the column is.
idx_to_pont_modrow(sw_corner, idx) ==
    IF DebugAssertions /\ ~(idx < NSamples)
    THEN Ret("panic", None)
    ELSE Ret("ok", Some(Point(Deg(sw_corner.x, idx % Dim),
                              Deg(sw_corner.y, WrappingSub(Dim - 1, idx % Dim)))))

idx_to_pont(sw_corner, idx) ==
    IF DebugAssertions /\ ~(idx < NSamples)
    THEN Ret("panic", None)
    ELSE LET y == WrappingSub(Dim - 1, idx \div Dim)
             lat_south == Deg(sw_corner.y, y)
             x == idx % Dim
             lon_west == Deg(sw_corner.x, x)
         IN  Ret("ok", Some(Point(lon_west, lat_south)))

-----------------------------------------------------------------------------
(* NASADEM::add_elevation *)

\* src.read_u16::<BE>() of sample number idx (from 0): the two bytes, or
\* << >> when the source ends before the second of them.
read_u16_BE(src, idx) ==
    IF Len(src) < 2 * idx + 2
    THEN None
    ELSE Some(src[2 * idx + 1] * 256 + src[2 * idx + 2])

\* The two nested loops, from row y (counting down) and column x on, with
\* idx samples read so far into elev_samples.
RECURSIVE ElevLoop(_, _, _, _, _, _)
ElevLoop(sw, src, y, x, idx, elev_samples) ==
    IF y < 0 THEN [status |-> "ok", samples |-> elev_samples]
    ELSE IF x = Dim THEN ElevLoop(sw, src, y - 1, 0, idx, elev_samples)
    ELSE IF DebugAssertions /\ x = 0 /\ ~BoundsAsserts(sw.y, y)
         THEN [status |-> "panic", samples |-> elev_samples]
    ELSE IF DebugAssertions /\ ~BoundsAsserts(sw.x, x)
         THEN [status |-> "panic", samples |-> elev_samples]
    ELSE LET sample == read_u16_BE(src, idx)
         IN  IF sample = None
             THEN [status |-> "io_error", samples |-> elev_samples]
             ELSE IF DebugAssertions
                     /\ idx_to_pont(sw, idx)
                          # Ret("ok", Some(Point(Deg(sw.x, x), Deg(sw.y, y))))
             THEN [status |-> "panic", samples |-> Append(elev_samples, sample[1])]
             ELSE ElevLoop(sw, src, y, x + 1, idx + 1,
                           Append(elev_samples, sample[1]))

\* self.elevation assigned on a failed read as well.
add_elevation_partial(self, src) ==
    LET r == ElevLoop(self.southwest_corner, src, Dim - 1, 0, 0, << >>)
    IN  IF r.status = "panic"
        THEN [status |-> r.status, dem |-> self]
        ELSE [status |-> r.status,
              dem |-> [self EXCEPT !.elevation = Some(r.samples)]]

add_elevation(self, src) ==
    LET r == ElevLoop(self.southwest_corner, src, Dim - 1, 0, 0, << >>)
    IN  IF r.status # "ok"
        THEN [status |-> r.status, dem |-> self]
        ELSE IF DebugAssertions /\ Len(r.samples) # NSamples
        THEN [status |-> "panic", dem |-> self]
        ELSE [status |-> "ok",
              dem |-> [self EXCEPT !.elevation = Some(r.samples)]]

-----------------------------------------------------------------------------
(* NASADEM::add_water *)

\* src.read_u8() of sample number idx (from 0).
read_u8(src, idx) == IF Len(src) < idx + 1 THEN None ELSE Some(src[idx + 1])

\* The flag pushed for a byte read: sample == 0 instead of sample == 255.
water_flag_inverted(sample) == sample = 0

\* water_samples.push(sample == 255)
water_flag(sample) == sample = 255

RECURSIVE WaterLoop(_, _, _, _)
WaterLoop(src, i, j, water_samples) ==
    IF i = Dim THEN [status |-> "ok", samples |-> water_samples]
    ELSE IF j = Dim THEN WaterLoop(src, i + 1, 0, water_samples)
    ELSE LET sample == read_u8(src, Len(water_samples))
         IN  IF sample = None
             THEN [status |-> "io_error", samples |-> water_samples]
             ELSE IF DebugAssertions /\ ~(sample[1] = 0 \/ sample[1] = 255)
             THEN [status |-> "panic", samples |-> water_samples]
             ELSE WaterLoop(src, i, j + 1,
                            Append(water_samples, water_flag(sample[1])))

add_water(self, src) ==
    LET r == WaterLoop(src, 0, 0, << >>)
    IN  IF r.status # "ok"
        THEN [status |-> r.status, dem |-> self]
        ELSE IF DebugAssertions /\ Len(r.samples) # NSamples
        THEN [status |-> "panic", dem |-> self]
        ELSE [status |-> "ok",
              dem |-> [self EXCEPT !.water = Some(r.samples)]]

-----------------------------------------------------------------------------
(* NASADEM::iter, Iter and Iterator::next *)

\* A cursor that starts one sample in.
Iter_new_skip(d) == [idx |-> 1]

\* Iter { dem: self, idx: 0 }; the borrow of the tile is the variable dem.
Iter_new(d) == [idx |-> 0]

DEMBox(southwest_corner, elevation, is_water) ==
    [southwest_corner |-> southwest_corner,
     elevation |-> elevation,
     is_water |-> is_water]

\* The traversal ended one sample early.
Iter_next_short(self, d) ==
    IF self.idx < NSamples - 1
    THEN [self |-> [self EXCEPT !.idx = self.idx + 1],
          ret |-> Ret("ok", Some(DEMBox(
                    idx_to_pont(d.southwest_corner, self.idx).val[1],
                    IF d.elevation = None THEN None
                    ELSE Some(d.elevation[1][self.idx + 1]),
                    IF d.water = None THEN None
                    ELSE Some(d.water[1][self.idx + 1]))))]
    ELSE [self |-> self, ret |-> Ret("ok", None)]

\* An absent grid read as zero / land instead of propagated.
Iter_next_default(self, d) ==
    IF self.idx < NSamples
    THEN [self |-> [self EXCEPT !.idx = self.idx + 1],
          ret |-> Ret("ok", Some(DEMBox(
                    idx_to_pont(d.southwest_corner, self.idx).val[1],
                    IF d.elevation = None THEN Some(0)
                    ELSE Some(d.elevation[1][self.idx + 1]),
                    IF d.water = None THEN Some(FALSE)
                    ELSE Some(d.water[1][self.idx + 1]))))]
    ELSE [self |-> self, ret |-> Ret("ok", None)]

Iter_next(self, d) ==
    IF self.idx < NSamples
    THEN LET southwest_corner == idx_to_pont(d.southwest_corner, self.idx)
             elevation == IF d.elevation = None THEN None
                          ELSE Some(d.elevation[1][self.idx + 1])
             is_water == IF d.water = None THEN None
                         ELSE Some(d.water[1][self.idx + 1])
         IN  IF southwest_corner.status # "ok"
             THEN [self |-> self, ret |-> Ret(southwest_corner.status, None)]
             ELSE [self |-> [self EXCEPT !.idx = self.idx + 1],
                   ret |-> Ret("ok", Some(DEMBox(southwest_corner.val[1],
                                                 elevation, is_water)))]
    ELSE [self |-> self, ret |-> Ret("ok", None)]

-----------------------------------------------------------------------------
(* The program: a tile, the calls made on it, and what each returned.       *)
(* A panic unwinds out of the call it happens in; the loaders assign to    *)
(* self only after their loops, so the tile a panic leaves behind (to a    *)
(* caller that catches the unwind) is the tile as it was before the call.  *)

\* The record of a call: the operation, the cursor slot (0: none), the
\* stream and the index handed in, and what came back.
Call(op, cur, src, idx, ret) ==
    [op |-> op, cur |-> cur, src |-> src, idx |-> idx, ret |-> ret]

\* The indices idx_to_pont is called with directly: both ends of the valid
\* range and indices past it.
ProbeIdx == {0, NSamples - 1, NSamples, NSamples + Dim}

\* No Iter borrows the tile: the loaders take &mut self.
NoBorrow == \A c \in Cursors : cursors[c] = None

Init ==
    /\ build \in Builds
    /\ \E sw \in Anchors : dem = NASADEM_new(sw)
    /\ cursors = [c \in Cursors |-> None]
    /\ yielded = [c \in Cursors |-> << >>]
    /\ last = Call("new", 0, << >>, 0, Ret("ok", None))
    /\ okSrc = [elevation |-> None, water |-> None]

AddElevation ==
    \E src \in ElevStreams :
        LET r == add_elevation(dem, src)
        IN  /\ NoBorrow
            /\ dem' = r.dem
            /\ last' = Call("add_elevation", 0, src, 0, Ret(r.status, None))
            /\ okSrc' = IF r.status = "ok"
                        THEN [okSrc EXCEPT !.elevation = Some(src)]
                        ELSE okSrc
            /\ UNCHANGED << build, cursors, yielded >>

AddWater ==
    \E src \in WaterStreams :
        LET r == add_water(dem, src)
        IN  /\ NoBorrow
            /\ dem' = r.dem
            /\ last' = Call("add_water", 0, src, 0, Ret(r.status, None))
            /\ okSrc' = IF r.status = "ok"
                        THEN [okSrc EXCEPT !.water = Some(src)]
                        ELSE okSrc
            /\ UNCHANGED << build, cursors, yielded >>

IterCall ==
    \E c \in Cursors :
        /\ cursors[c] = None
        /\ cursors' = [cursors EXCEPT ![c] = Some(Iter_new(dem))]
        /\ yielded' = [yielded EXCEPT ![c] = << >>]
        /\ last' = Call("iter", c, << >>, 0, Ret("ok", None))
        /\ UNCHANGED << build, dem, okSrc >>

NextCall ==
    \E c \in Cursors :
        /\ cursors[c] # None
        /\ LET r == Iter_next(cursors[c][1], dem)
           IN  /\ cursors' = [cursors EXCEPT ![c] = Some(r.self)]
               /\ yielded' = [yielded EXCEPT ![c] = yielded[c] \o r.ret.val]
               /\ last' = Call("next", c, << >>, 0, r.ret)
        /\ UNCHANGED << build, dem, okSrc >>

DropCursor ==
    \E c \in Cursors :
        /\ cursors[c] # None
        /\ cursors' = [cursors EXCEPT ![c] = None]
        /\ yielded' = [yielded EXCEPT ![c] = << >>]
        /\ last' = Call("drop", c, << >>, 0, Ret("ok", None))
        /\ UNCHANGED << build, dem, okSrc >>

CallIdxToPont ==
    \E idx \in ProbeIdx :
        /\ last' = Call("idx_to_pont", 0, << >>, idx,
                        idx_to_pont(dem.southwest_corner, idx))
        /\ UNCHANGED << build, dem, cursors, yielded, okSrc >>

Next ==
    \/ AddWater
    \/ AddElevation
    \/ IterCall
    \/ NextCall
    \/ DropCursor
    \/ CallIdxToPont

Spec == Init /\ [][Next]_vars

-----------------------------------------------------------------------------
(* Vocabulary of the properties. *)

Live(c) == cursors[c] # None

\* The last call was a loader call.
LoaderCall(call) == call.op \in {"add_elevation", "add_water"}

\* The stream of a loader call ends before 3601 x 3601 samples.
Truncated(call) ==
    IF call.op = "add_elevation"
    THEN Len(call.src) < 2 * NSamples
    ELSE Len(call.src) < NSamples

\* The stream holds a byte that is neither the land nor the water sentinel.
HasBadByte(src) == \E k \in 1..Len(src) : src[k] \notin {0, 255}

\* Sample k (from 1) of an elevation stream, big-endian.
ElevSampleOf(src, k) == src[2 * k - 1] * 256 + src[2 * k]

\* The lattice of southwest corners of the tile anchored at sw.
Lattice(sw) ==
    { Point(Deg(sw.x, col), Deg(sw.y, row)) : row \in 0..(Dim - 1),
                                               col \in 0..(Dim - 1) }

\* index = (3600 - row) * 3601 + column of a lattice point.
PointToIdx(sw, p) ==
    LET row == p.y - Deg(sw.y, 0)
        col == p.x - Deg(sw.x, 0)
    IN  (Dim - 1 - row) * Dim + col

-----------------------------------------------------------------------------
(* C1 *)

\* After any calls, the elevation a cursor yields is that of the last
\* successful elevation load, and absent when there was none.
ElevationYieldedIsLastLoaded ==
    \A c \in Cursors : \A k \in 1..Len(yielded[c]) :
        yielded[c][k].elevation =
            IF okSrc.elevation = None THEN None
            ELSE Some(ElevSampleOf(okSrc.elevation[1], k))

PanicsBeforeReadFails(call) ==
    /\ build = "debug"
    /\ IF call.op = "add_water"
       THEN HasBadByte(call.src)
       ELSE \/ EdgeRoundsOver(dem.southwest_corner.y)
            \/ /\ EdgeRoundsOver(dem.southwest_corner.x)
               /\ Len(call.src) >= 2 * (Dim - 1)

-----------------------------------------------------------------------------
(* C2 *)

\* The index of a cursor counts the records it has yielded and stays
\* within the grid; a cursor that has returned nothing has yielded them all.
CursorCounts ==
    /\ \A c \in Cursors :
          Live(c) => /\ cursors[c][1].idx = Len(yielded[c])
                     /\ cursors[c][1].idx <= NSamples
    /\ (last.op = "next" /\ last.ret.val = None)
          => /\ last.ret.status = "ok"
             /\ Len(yielded[last.cur]) = NSamples

\* What a call of next() on cursor c does.
NextStep(c) ==
    /\ Live(c)
    /\ cursors'[c] # None
    /\ IF cursors[c][1].idx < NSamples
       THEN /\ cursors'[c][1].idx = cursors[c][1].idx + 1
            /\ last'.ret.status = "ok"
            /\ last'.ret.val # None
            /\ yielded'[c] = yielded[c] \o last'.ret.val
       ELSE /\ cursors'[c][1].idx = cursors[c][1].idx
            /\ last'.ret = Ret("ok", None)
            /\ yielded'[c] = yielded[c]

\* C2: whatever was loaded, a cursor yields exactly 3601 x 3601 records:
\* its index goes up by one with each record, never passes 3601 x 3601, and
\* next() returns nothing exactly from the moment the index has reached it.
C2_CursorYieldsEverySample ==
    /\ []CursorCounts
    /\ [][last'.op = "next" => NextStep(last'.cur)]_vars

\* A cursor on a tile with an elevation grid has been stepped past its end.
C2_Witness ==
    /\ last.op = "next"
    /\ last.ret.val = None
    /\ cursors[last.cur][1].idx = NSamples
    /\ dem.elevation # None

-----------------------------------------------------------------------------
(* C3 *)

\* C3: the k-th cell yielded (k from 0) has southwest corner
\* (lon + (k mod 3601)/3601, lat + (3600 - k div 3601)/3601): the north row
\* first, west to east within a row, the first cell at (lon, lat + 3600/3601).
C3_YieldedCorner ==
    \A c \in Cursors : \A n \in 1..Len(yielded[c]) :
        LET k == n - 1
            sw == dem.southwest_corner
            p == yielded[c][n].southwest_corner
        IN  /\ p.x = sw.x * Dim + (k % Dim)
            /\ p.y = sw.y * Dim + ((Dim - 1) - (k \div Dim))
            /\ (n = 1) => p = Point(sw.x * Dim, sw.y * Dim + Dim - 1)
            /\ (n > 1 /\ k % Dim # 0)
                  => /\ p.y = yielded[c][n - 1].southwest_corner.y
                     /\ p.x = yielded[c][n - 1].southwest_corner.x + 1
            /\ (n > 1 /\ k % Dim = 0)
                  => /\ p.y = yielded[c][n - 1].southwest_corner.y - 1
                     /\ p.x = sw.x * Dim

\* The tile anchored at (-106, 38) has been traversed to its last cell.
C3_Witness ==
    /\ dem.southwest_corner = [x |-> -106, y |-> 38]
    /\ \E c \in Cursors :
          /\ Len(yielded[c]) = NSamples
          /\ yielded[c][1].southwest_corner = Point(-106 * Dim, 38 * Dim + Dim - 1)

-----------------------------------------------------------------------------
(* C4 *)

\* C4: idx_to_pont is a bijection between the indices below 3601 x 3601 and
\* the lattice of southwest corners of the tile: different indices give
\* different points, every lattice point is given, and
\* (3600 - row) * 3601 + column of the point is the index again.
C4_IndexPointBijection ==
    \A c \in Cursors :
        LET sw == dem.southwest_corner
            pt(n) == yielded[c][n].southwest_corner
        IN  /\ \A n \in 1..Len(yielded[c]) :
                  /\ pt(n) \in Lattice(sw)
                  /\ PointToIdx(sw, pt(n)) = n - 1
            /\ \A m, n \in 1..Len(yielded[c]) : m # n => pt(m) # pt(n)
            /\ Len(yielded[c]) = NSamples
                  => { pt(n) : n \in 1..NSamples } = Lattice(sw)

\* Every index of a tile south of the equator has been mapped.
C4_Witness ==
    /\ dem.southwest_corner.y < 0
    /\ \E c \in Cursors : Len(yielded[c]) = NSamples

-----------------------------------------------------------------------------
(* C5 *)

\* C5: after any successful and failed loader calls, a yielded cell has no
\* elevation exactly when no elevation load has succeeded, and no water flag
\* exactly when no water load has succeeded, each whatever happened to the
\* other; a fresh tile yields cells with neither.
C5_AbsentIffNeverLoaded ==
    /\ (dem.elevation = None) <=> (okSrc.elevation = None)
    /\ (dem.water = None) <=> (okSrc.water = None)
    /\ \A c \in Cursors : \A k \in 1..Len(yielded[c]) :
          /\ (yielded[c][k].elevation = None) <=> (okSrc.elevation = None)
          /\ (yielded[c][k].is_water = None) <=> (okSrc.water = None)

\* Cells with an elevation and no water flag have been yielded.
C5_Witness ==
    \E c \in Cursors :
        /\ Len(yielded[c]) > 0
        /\ yielded[c][1].elevation # None
        /\ yielded[c][1].is_water = None

-----------------------------------------------------------------------------
(* C6 *)

\* C6: after a successful water load the k-th cell yielded has the flag
\* Some(true) where the k-th byte of the stream is 255 and Some(false)
\* where it is 0.
C6_WaterFlagOfByte ==
    okSrc.water # None =>
        \A c \in Cursors : \A k \in 1..Len(yielded[c]) :
            LET b == okSrc.water[1][k]
            IN  /\ (b = 255) => yielded[c][k].is_water = Some(TRUE)
                /\ (b = 0) => yielded[c][k].is_water = Some(FALSE)

\* A tile loaded with an all-255 water stream has been traversed.
C6_Witness ==
    /\ okSrc.water # None
    /\ \A k \in 1..NSamples : okSrc.water[1][k] = 255
    /\ \E c \in Cursors :
          /\ Len(yielded[c]) = NSamples
          /\ \A k \in 1..NSamples : yielded[c][k].is_water = Some(TRUE)

-----------------------------------------------------------------------------
(* C7 *)

\* Two cursors on the tile have yielded the same cells as far as both got.
SameSequences ==
    \A c, d \in Cursors :
        \A k \in 1..Len(yielded[c]) :
            k <= Len(yielded[d]) => yielded[c][k] = yielded[d][k]

\* A cursor operation leaves the tile and every other cursor alone.
OthersUntouched(c) ==
    /\ dem' = dem
    /\ \A d \in Cursors \ {c} :
          /\ cursors'[d] = cursors[d]
          /\ yielded'[d] = yielded[d]

\* C7: iter() returns a fresh cursor at index 0, two cursors on the tile
\* advance independently and yield the same sequence of cells, and stepping
\* a cursor changes neither the anchor nor the grids of the tile.
C7_RestartableReadOnly ==
    /\ []SameSequences
    /\ [][last'.op = "iter"
            => /\ cursors'[last'.cur] = Some([idx |-> 0])
               /\ yielded'[last'.cur] = << >>
               /\ OthersUntouched(last'.cur)]_vars
    /\ [][last'.op = "next" => OthersUntouched(last'.cur)]_vars

\* One cursor has finished the traversal while the other, started on the same
\* tile, has yielded only its first cell.
C7_Witness ==
    /\ Live(1) /\ Live(2)
    /\ cursors[1][1].idx = NSamples
    /\ cursors[2][1].idx = 1
    /\ yielded[2][1] = yielded[1][1]
    /\ dem.elevation # None

-----------------------------------------------------------------------------
(* C8 *)

\* C8: a water load whose stream holds a byte other than 0 and 255 never
\* returns success with a water grid installed.
C8_BadByteRejected ==
    (last.op = "add_water" /\ HasBadByte(last.src))
        => ~(last.ret.status = "ok" /\ dem.water # None)

-----------------------------------------------------------------------------
(* C9 *)

\* C9: idx_to_pont called with an index of 3601 x 3601 or more panics in
\* every build, and returns no coordinate.
C9_OutOfRangeTraps ==
    (last.op = "idx_to_pont" /\ last.idx >= NSamples)
        => (last.ret.status = "panic" /\ last.ret.val = None)

-----------------------------------------------------------------------------
(* C10 *)

\* The point idx_to_pont gives row (from the south) and column of a tile.
CornerOf(sw, row, col) == idx_to_pont(sw, (Dim - 1 - row) * Dim + col).val[1]

\* C10: adjacent tiles share their boundary: the easternmost column of a
\* tile has the longitude of the westernmost column of the tile one degree
\* east, and its northernmost row the latitude of the southernmost row of
\* the tile one degree north.
C10_SharedBoundary ==
    LET sw == dem.southwest_corner
        east == [sw EXCEPT !.x = sw.x + 1]
        north == [sw EXCEPT !.y = sw.y + 1]
    IN  \A n \in 0..(Dim - 1) :
            /\ CornerOf(sw, n, Dim - 1).x = CornerOf(east, n, 0).x
            /\ CornerOf(sw, Dim - 1, n).y = CornerOf(north, 0, n).y

=============================================================================
